---- MODULE Spec2Model ----
(***************************************************************************)
(* The bl-svm hashed-timelock escrow program (programs/bl-svm): the HTLC   *)
(* account, its token vault and the three instructions create_htlc,        *)
(* withdraw_to_destination and cancel, as a state machine over the ledger. *)
(*                                                                         *)
(* An instruction runs on a working copy of the accounts it names.  The    *)
(* ledger keeps the copy when the instruction returns Ok(()) and discards  *)
(* it when the instruction returns an error.  Native balances are counted  *)
(* net of the rent-exempt reserve of an account, which no handler moves.   *)
(***************************************************************************)
EXTENDS Integers, Sequences, FiniteSets, TLC

\* ------------------------------------------------------------------ bounds
\* Largest token amount a request may name, what each user holds of each
\* mint at first, and the most an HTLC-owned token account is sent from outside.
MaxAmount == 2
\* The clock is followed up to this time.
MaxTime == 6

\* ------------------------------------------------------------- input sets
Users == {"u1", "u2"}
HtlcIds == {"idA", "idB"}
\* Pubkey::default(), the all-zero key: the address of the system program.
DefaultPubkey == "11111111111111111111111111111111"
\* The initialised token mints of the ledger.
Mints == {"mintX", "mintY"}
MintKeys == Mints \cup {DefaultPubkey}
\* [0u8; 20]
ZeroBytes20 == "0x0000000000000000000000000000000000000000"
EvmAddresses == {ZeroBytes20, "0xd5"}
Preimages == {"s1", "s2"}
Hashlocks == {"h1", "h2"}
Amounts == 0 .. MaxAmount
Deposits == {0, 1}
\* <<finality, resolver, public, cancellation>> deadlines of a request: one
\* strictly increasing choice, and choices with an equal or a reversed pair.
OrderedTimelocks == <<1, 3, 5, 6>>
Timelocks ==
  { OrderedTimelocks,
    <<1, 1, 5, 6>>, <<1, 3, 3, 6>>, <<1, 3, 5, 5>>, <<3, 1, 6, 5>> }

\* hashv(&[&preimage]): SHA-256 of the preimage bytes, on the preimages of
\* the model.
hashv(preimage) == IF preimage = "s1" THEN "h1" ELSE "h2"

\* ------------------------------------------------------------------ state
VARIABLES
  now,        \* Clock::get()?.unix_timestamp
  htlc,       \* the HTLC account of each htlc_id, NoAccount before its init
  tokens,     \* the initialised token accounts: <<mint, authority>> -> balance
  lamports,   \* native balance of each user and of each HTLC account
  events      \* the log of emitted events

vars == <<now, htlc, tokens, lamports, events>>
ledger == <<htlc, tokens, lamports, events>>

NoAccount == [exists |-> FALSE]

\* seeds = [b"htlc", htlc_id], bump: the address of the HTLC account.
HtlcAddress(htlc_id) == IF htlc_id = "idA" THEN "htlcA" ELSE "htlcB"
\* ctx.bumps.htlc: the canonical bump of those seeds.
Bump(htlc_id) == IF htlc_id = "idA" THEN 255 ELSE 254
\* associated_token::mint = token_mint, associated_token::authority = owner:
\* the one token account of `owner` for `mint`.
AssociatedToken(mint, owner) == <<mint, owner>>

\* The accounts an instruction works on, and the error it has run into.
Accounts ==
  [err |-> "Ok", htlc |-> htlc, tokens |-> tokens, lamports |-> lamports,
   events |-> events]

\* `?` and require!: the first error ends the instruction.
Err(s, e) == [s EXCEPT !.err = e]

\* token::transfer: the token program moves `amount` between two token
\* accounts, or fails when the source holds less.
transfer(s, from, to, amount) ==
  IF s.err # "Ok" THEN s
  ELSE IF from \notin DOMAIN s.tokens \/ to \notin DOMAIN s.tokens
    THEN Err(s, "AccountNotInitialized")
  ELSE IF s.tokens[from] < amount THEN Err(s, "InsufficientFunds")
  ELSE IF from = to THEN s
  ELSE [s EXCEPT !.tokens[from] = @ - amount, !.tokens[to] = @ + amount]

\* system_instruction::transfer invoked for the resolver: the system program
\* moves lamports, or fails when the payer holds less.
system_transfer(s, from, to, amount) ==
  IF s.err # "Ok" THEN s
  ELSE IF s.lamports[from] < amount THEN Err(s, "ResultWithNegativeLamports")
  ELSE [s EXCEPT !.lamports[from] = @ - amount, !.lamports[to] = @ + amount]

\* emit!
emit(s, e) == IF s.err # "Ok" THEN s ELSE [s EXCEPT !.events = Append(@, e)]

\* ------------------------------------------------------------ create_htlc
\* CreateHTLCParams
CreateHTLCParams ==
  [htlc_id : HtlcIds, dst_address : EvmAddresses, dst_token : EvmAddresses,
   amount : Amounts, safety_deposit : Deposits, hashlock : Hashlocks,
   finality_deadline : Int, resolver_deadline : Int,
   public_deadline : Int, cancellation_deadline : Int]

Params(id, dst, dtok, amt, dep, hl, tl) ==
  [htlc_id |-> id, dst_address |-> dst, dst_token |-> dtok, amount |-> amt,
   safety_deposit |-> dep, hashlock |-> hl, finality_deadline |-> tl[1],
   resolver_deadline |-> tl[2], public_deadline |-> tl[3],
   cancellation_deadline |-> tl[4]]

\* A CreateHTLC whose HTLC account is taken over when it is there already.
CreateHTLC_Reinit(s, resolver, token_mint, params) ==
  LET id == params.htlc_id
      htlc_vault == AssociatedToken(token_mint, HtlcAddress(id))
  IN IF token_mint \notin Mints THEN Err(s, "AccountOwnedByWrongProgram")
     ELSE IF AssociatedToken(token_mint, resolver) \notin DOMAIN s.tokens
       THEN Err(s, "AccountNotInitialized")
     ELSE [s EXCEPT !.htlc[id] = [exists |-> TRUE],
                    !.tokens = [k \in DOMAIN @ \cup {htlc_vault} |->
                                  IF k = htlc_vault THEN 0 ELSE @[k]]]

\* #[derive(Accounts)] CreateHTLC, in the order of its fields: `init` of the
\* HTLC account at the address of params.htlc_id fails when the account is
\* there already; token_mint is a Mint account; the resolver's token account
\* for it is initialised; `init` of the vault fails when it is there already.
CreateHTLC(s, resolver, token_mint, params) ==
  LET id == params.htlc_id
      htlc_vault == AssociatedToken(token_mint, HtlcAddress(id))
  IN IF s.htlc[id].exists THEN Err(s, "AccountAlreadyInUse")
     ELSE IF token_mint \notin Mints THEN Err(s, "AccountOwnedByWrongProgram")
     ELSE IF AssociatedToken(token_mint, resolver) \notin DOMAIN s.tokens
       THEN Err(s, "AccountNotInitialized")
     ELSE IF htlc_vault \in DOMAIN s.tokens THEN Err(s, "IllegalOwner")
     ELSE [s EXCEPT !.htlc[id] = [exists |-> TRUE],
                    !.tokens = [k \in DOMAIN @ \cup {htlc_vault} |->
                                  IF k = htlc_vault THEN 0 ELSE @[k]]]

\* The require! checks with a deadline chain that admits equal neighbours.
ValidateParams_LooseOrder(token_mint, params) ==
  IF ~(params.amount > 0) THEN "InvalidAmount"
  ELSE IF ~(params.safety_deposit > 0) THEN "InvalidSafetyDeposit"
  ELSE IF ~(token_mint # DefaultPubkey) THEN "InvalidTokenMint"
  ELSE IF ~(params.dst_address # ZeroBytes20) THEN "InvalidDestination"
  ELSE IF ~(params.dst_token # ZeroBytes20) THEN "InvalidDestination"
  ELSE IF ~(/\ params.finality_deadline <= params.resolver_deadline
            /\ params.resolver_deadline <= params.public_deadline
            /\ params.public_deadline <= params.cancellation_deadline)
    THEN "InvalidTimelockOrder"
  ELSE "Ok"

\* The require! checks without the check of the deadline chain.
ValidateParams_NoOrder(token_mint, params) ==
  IF ~(params.amount > 0) THEN "InvalidAmount"
  ELSE IF ~(params.safety_deposit > 0) THEN "InvalidSafetyDeposit"
  ELSE IF ~(token_mint # DefaultPubkey) THEN "InvalidTokenMint"
  ELSE IF ~(params.dst_address # ZeroBytes20) THEN "InvalidDestination"
  ELSE IF ~(params.dst_token # ZeroBytes20) THEN "InvalidDestination"
  ELSE "Ok"

\* The require! checks with the check of the deadline chain moved to the
\* front.
ValidateParams_TimelockFirst(token_mint, params) ==
  IF ~(/\ params.finality_deadline < params.resolver_deadline
       /\ params.resolver_deadline < params.public_deadline
       /\ params.public_deadline < params.cancellation_deadline)
    THEN "InvalidTimelockOrder"
  ELSE IF ~(params.amount > 0) THEN "InvalidAmount"
  ELSE IF ~(params.safety_deposit > 0) THEN "InvalidSafetyDeposit"
  ELSE IF ~(token_mint # DefaultPubkey) THEN "InvalidTokenMint"
  ELSE IF ~(params.dst_address # ZeroBytes20) THEN "InvalidDestination"
  ELSE IF ~(params.dst_token # ZeroBytes20) THEN "InvalidDestination"
  ELSE "Ok"

\* The require! checks of the handler, in its order.
ValidateParams(token_mint, params) ==
  IF ~(params.amount > 0) THEN "InvalidAmount"
  ELSE IF ~(params.safety_deposit > 0) THEN "InvalidSafetyDeposit"
  ELSE IF ~(token_mint # DefaultPubkey) THEN "InvalidTokenMint"
  ELSE IF ~(params.dst_address # ZeroBytes20) THEN "InvalidDestination"
  ELSE IF ~(params.dst_token # ZeroBytes20) THEN "InvalidDestination"
  ELSE IF ~(/\ params.finality_deadline < params.resolver_deadline
            /\ params.resolver_deadline < params.public_deadline
            /\ params.public_deadline < params.cancellation_deadline)
    THEN "InvalidTimelockOrder"
  ELSE "Ok"

\* "Initialize HTLC state"
InitializeHTLC(resolver, token_mint, params, clock) ==
  [exists |-> TRUE,
   resolver |-> resolver,
   src_address |-> resolver,
   dst_address |-> params.dst_address,
   src_token |-> token_mint,
   dst_token |-> params.dst_token,
   amount |-> params.amount,
   safety_deposit |-> params.safety_deposit,
   hashlock |-> params.hashlock,
   htlc_id |-> params.htlc_id,
   finality_deadline |-> params.finality_deadline,
   resolver_deadline |-> params.resolver_deadline,
   public_deadline |-> params.public_deadline,
   cancellation_deadline |-> params.cancellation_deadline,
   withdrawn |-> FALSE,
   cancelled |-> FALSE,
   created_at |-> clock,
   bump |-> Bump(params.htlc_id)]

HTLCCreated(resolver, params) ==
  [name |-> "HTLCCreated",
   htlc_account |-> HtlcAddress(params.htlc_id),
   htlc_id |-> params.htlc_id,
   resolver |-> resolver,
   dst_address |-> params.dst_address,
   amount |-> params.amount,
   hashlock |-> params.hashlock,
   finality_deadline |-> params.finality_deadline]

\* A Create that initialises and fills the vault and leaves the safety
\* deposit with the resolver.
create_htlc_handler_NoDeposit(s0, resolver, token_mint, params, clock) ==
  LET id == params.htlc_id
      v == ValidateParams(token_mint, params)
  IN IF s0.err # "Ok" THEN s0
     ELSE IF v # "Ok" THEN Err(s0, v)
     ELSE
       LET s1 == [s0 EXCEPT !.htlc[id] =
                    InitializeHTLC(resolver, token_mint, params, clock)]
           s2 == transfer(s1, AssociatedToken(token_mint, resolver),
                          AssociatedToken(token_mint, HtlcAddress(id)),
                          params.amount)
       IN emit(s2, HTLCCreated(resolver, params))

\* A Create that refuses a request whose first deadline the clock has
\* reached.
create_htlc_handler_FutureOnly(s0, resolver, token_mint, params, clock) ==
  LET id == params.htlc_id
      v == ValidateParams(token_mint, params)
  IN IF s0.err # "Ok" THEN s0
     ELSE IF v # "Ok" THEN Err(s0, v)
     ELSE IF ~(clock < params.finality_deadline)
       THEN Err(s0, "InvalidTimelockOrder")
     ELSE
       LET s1 == [s0 EXCEPT !.htlc[id] =
                    InitializeHTLC(resolver, token_mint, params, clock)]
           s2 == transfer(s1, AssociatedToken(token_mint, resolver),
                          AssociatedToken(token_mint, HtlcAddress(id)),
                          params.amount)
           s3 == system_transfer(s2, resolver, HtlcAddress(id),
                                 params.safety_deposit)
       IN emit(s3, HTLCCreated(resolver, params))

\* create_htlc::handler on the validated accounts.
create_htlc_handler(s0, resolver, token_mint, params, clock) ==
  LET id == params.htlc_id
      v == ValidateParams(token_mint, params)
  IN IF s0.err # "Ok" THEN s0
     ELSE IF v # "Ok" THEN Err(s0, v)
     ELSE
       LET s1 == [s0 EXCEPT !.htlc[id] =
                    InitializeHTLC(resolver, token_mint, params, clock)]
           s2 == transfer(s1, AssociatedToken(token_mint, resolver),
                          AssociatedToken(token_mint, HtlcAddress(id)),
                          params.amount)
           s3 == system_transfer(s2, resolver, HtlcAddress(id),
                                 params.safety_deposit)
       IN emit(s3, HTLCCreated(resolver, params))

\* bl_svm::create_htlc: the accounts are validated, then the handler runs.
create_htlc_run(s, resolver, token_mint, params, clock) ==
  create_htlc_handler(CreateHTLC(s, resolver, token_mint, params),
                      resolver, token_mint, params, clock)

\* ------------------------------------------------- withdraw_to_destination
\* init_if_needed: the token account is created empty when it is not there.
init_if_needed(s, account) ==
  IF s.err # "Ok" \/ account \in DOMAIN s.tokens THEN s
  ELSE [s EXCEPT !.tokens = [k \in DOMAIN @ \cup {account} |->
                               IF k = account THEN 0 ELSE @[k]]]

\* #[derive(Accounts)] WithdrawToDestination: the HTLC account and the vault
\* of token_mint owned by it are initialised accounts; the destination is the
\* executor's token account for token_mint.
WithdrawToDestination(s, executor, id, token_mint) ==
  IF ~s.htlc[id].exists THEN Err(s, "AccountNotInitialized")
  ELSE IF token_mint \notin Mints THEN Err(s, "AccountOwnedByWrongProgram")
  ELSE IF AssociatedToken(token_mint, HtlcAddress(id)) \notin DOMAIN s.tokens
    THEN Err(s, "AccountNotInitialized")
  ELSE init_if_needed(s, AssociatedToken(token_mint, executor))

\* The state check without its test of the withdrawn flag.
CheckState_CancelledOnly(h) ==
  IF ~(~h.cancelled) THEN "AlreadyCancelled" ELSE "Ok"

\* The state check without its test of the cancelled flag.
CheckState_WithdrawnOnly(h) ==
  IF ~(~h.withdrawn) THEN "AlreadyWithdrawn" ELSE "Ok"

\* "Check HTLC state"
CheckState(h) ==
  IF ~(~h.withdrawn) THEN "AlreadyWithdrawn"
  ELSE IF ~(~h.cancelled) THEN "AlreadyCancelled"
  ELSE "Ok"

\* A preimage check that accepts every preimage.
VerifyPreimage_AcceptAll(h, preimage) == "Ok"

\* "Verify preimage"
VerifyPreimage(h, preimage) ==
  IF ~(hashv(preimage) = h.hashlock) THEN "InvalidPreimage" ELSE "Ok"

\* A timing check whose resolver window opens one second late.
CheckWithdrawalTiming_LateStart(h, executor, current_time) ==
  LET is_resolver == executor = h.resolver
  IN IF current_time <= h.finality_deadline THEN "WithdrawalNotAllowed"
     ELSE IF current_time < h.resolver_deadline
       THEN (IF is_resolver THEN "Ok" ELSE "WithdrawalNotAllowed")
     ELSE IF current_time < h.public_deadline THEN "Ok"
     ELSE "WithdrawalNotAllowed"

\* A timing check without the resolver's exclusive window.
CheckWithdrawalTiming_NoExclusive(h, executor, current_time) ==
  IF current_time < h.finality_deadline THEN "WithdrawalNotAllowed"
  ELSE IF current_time < h.public_deadline THEN "Ok"
  ELSE "WithdrawalNotAllowed"

\* "Check withdrawal timing constraints"
CheckWithdrawalTiming(h, executor, current_time) ==
  LET is_resolver == executor = h.resolver
  IN IF current_time < h.finality_deadline THEN "WithdrawalNotAllowed"
     ELSE IF current_time < h.resolver_deadline
       THEN (IF is_resolver THEN "Ok" ELSE "WithdrawalNotAllowed")
     ELSE IF current_time < h.public_deadline THEN "Ok"
     ELSE "WithdrawalNotAllowed"

\* **account.try_borrow_mut_lamports()? -= / += safety_deposit.  A record
\* that holds less than the deposit makes the instruction fail, by the
\* overflow check of the subtraction or by the runtime's check of the sum of
\* the balances of an instruction.
pay_safety_deposit(s, id, executor) ==
  LET deposit == s.htlc[id].safety_deposit
  IN IF s.err # "Ok" THEN s
     ELSE IF s.lamports[HtlcAddress(id)] < deposit
       THEN Err(s, "ProgramFailedToComplete")
     ELSE [s EXCEPT !.lamports[HtlcAddress(id)] = @ - deposit,
                    !.lamports[executor] = @ + deposit]

\* A withdrawal event that names the resolver as its executor.
HTLCWithdrawn_ByResolver(h, preimage, executor) ==
  [name |-> "HTLCWithdrawn",
   htlc_account |-> HtlcAddress(h.htlc_id),
   preimage |-> preimage,
   executor |-> h.resolver,
   destination |-> h.dst_address]

HTLCWithdrawn(h, preimage, executor) ==
  [name |-> "HTLCWithdrawn",
   htlc_account |-> HtlcAddress(h.htlc_id),
   preimage |-> preimage,
   executor |-> executor,
   destination |-> h.dst_address]

\* The checks of withdraw::handler with the timing before the preimage.
WithdrawChecks_TimingFirst(h, executor, preimage, current_time) ==
  IF CheckState(h) # "Ok" THEN CheckState(h)
  ELSE IF CheckWithdrawalTiming(h, executor, current_time) # "Ok"
    THEN CheckWithdrawalTiming(h, executor, current_time)
  ELSE VerifyPreimage(h, preimage)

\* The checks of withdraw::handler, in its order.
WithdrawChecks(h, executor, preimage, current_time) ==
  IF CheckState(h) # "Ok" THEN CheckState(h)
  ELSE IF VerifyPreimage(h, preimage) # "Ok" THEN VerifyPreimage(h, preimage)
  ELSE CheckWithdrawalTiming(h, executor, current_time)

\* withdraw::handler on the validated accounts.
withdraw_handler(s0, executor, id, token_mint, preimage, current_time) ==
  IF s0.err # "Ok" THEN s0
  ELSE
    LET h == s0.htlc[id]
        c == WithdrawChecks(h, executor, preimage, current_time)
    IN IF c # "Ok" THEN Err(s0, c)
       ELSE
         LET s1 == [s0 EXCEPT !.htlc[id].withdrawn = TRUE]
             s2 == transfer(s1, AssociatedToken(token_mint, HtlcAddress(id)),
                            AssociatedToken(token_mint, executor), h.amount)
             s3 == pay_safety_deposit(s2, id, executor)
         IN emit(s3, HTLCWithdrawn(h, preimage, executor))

\* bl_svm::withdraw_to_destination
withdraw_run(s, executor, id, token_mint, preimage, current_time) ==
  withdraw_handler(WithdrawToDestination(s, executor, id, token_mint),
                   executor, id, token_mint, preimage, current_time)

\* ----------------------------------------------------------------- cancel
\* #[derive(Accounts)] Cancel: as for the withdrawal; the refund goes to the
\* token account of src_address for token_mint.
Cancel(s, id, src_address, token_mint) ==
  IF ~s.htlc[id].exists THEN Err(s, "AccountNotInitialized")
  ELSE IF token_mint \notin Mints THEN Err(s, "AccountOwnedByWrongProgram")
  ELSE IF AssociatedToken(token_mint, HtlcAddress(id)) \notin DOMAIN s.tokens
    THEN Err(s, "AccountNotInitialized")
  ELSE init_if_needed(s, AssociatedToken(token_mint, src_address))

\* A cancellation check that opens one second late.
CheckCancellationTiming_Strict(h, current_time) ==
  IF ~(current_time > h.cancellation_deadline)
    THEN "CancellationNotAllowed" ELSE "Ok"

\* "Check cancellation timing"
CheckCancellationTiming(h, current_time) ==
  IF ~(current_time >= h.cancellation_deadline)
    THEN "CancellationNotAllowed" ELSE "Ok"

\* cancel::handler without its state check.
CancelChecks_NoStateCheck(h, src_address, current_time) ==
  IF ~(src_address = h.src_address) THEN "InvalidDestination"
  ELSE CheckCancellationTiming(h, current_time)

\* The checks of cancel::handler with the state before the source address.
CancelChecks_StateFirst(h, src_address, current_time) ==
  IF CheckState(h) # "Ok" THEN CheckState(h)
  ELSE IF ~(src_address = h.src_address) THEN "InvalidDestination"
  ELSE CheckCancellationTiming(h, current_time)

\* The checks of cancel::handler, in its order.
CancelChecks(h, src_address, current_time) ==
  IF ~(src_address = h.src_address) THEN "InvalidDestination"
  ELSE IF CheckState(h) # "Ok" THEN CheckState(h)
  ELSE CheckCancellationTiming(h, current_time)

HTLCCancelled(h, executor) ==
  [name |-> "HTLCCancelled",
   htlc_account |-> HtlcAddress(h.htlc_id),
   executor |-> executor]

\* A cancel::handler that marks the record withdrawn.
cancel_handler_WrongFlag(s0, executor, id, src_address, token_mint, current_time) ==
  IF s0.err # "Ok" THEN s0
  ELSE
    LET h == s0.htlc[id]
        c == CancelChecks(h, src_address, current_time)
    IN IF c # "Ok" THEN Err(s0, c)
       ELSE
         LET s1 == [s0 EXCEPT !.htlc[id].withdrawn = TRUE]
             s2 == transfer(s1, AssociatedToken(token_mint, HtlcAddress(id)),
                            AssociatedToken(token_mint, src_address), h.amount)
             s3 == pay_safety_deposit(s2, id, executor)
         IN emit(s3, HTLCCancelled(h, executor))

\* cancel::handler on the validated accounts.
cancel_handler(s0, executor, id, src_address, token_mint, current_time) ==
  IF s0.err # "Ok" THEN s0
  ELSE
    LET h == s0.htlc[id]
        c == CancelChecks(h, src_address, current_time)
    IN IF c # "Ok" THEN Err(s0, c)
       ELSE
         LET s1 == [s0 EXCEPT !.htlc[id].cancelled = TRUE]
             s2 == transfer(s1, AssociatedToken(token_mint, HtlcAddress(id)),
                            AssociatedToken(token_mint, src_address), h.amount)
             s3 == pay_safety_deposit(s2, id, executor)
         IN emit(s3, HTLCCancelled(h, executor))

\* bl_svm::cancel
cancel_run(s, executor, id, src_address, token_mint, current_time) ==
  cancel_handler(Cancel(s, id, src_address, token_mint),
                 executor, id, src_address, token_mint, current_time)

\* ----------------------------------------------------------- the ledger
InitialTokens == MaxAmount
\* Each user can pay the largest safety deposit once.
InitialLamports == CHOOSE d \in Deposits : \A e \in Deposits : e <= d

Init ==
  /\ now = 0
  /\ htlc = [id \in HtlcIds |-> NoAccount]
  /\ tokens = [k \in {AssociatedToken(m, u) : m \in Mints, u \in Users} |->
                 InitialTokens]
  /\ lamports = [a \in Users \cup {HtlcAddress(id) : id \in HtlcIds} |->
                   IF a \in Users THEN InitialLamports ELSE 0]
  /\ events = <<>>

\* A ledger that keeps what an instruction did whatever it returned.
Committed_Always(s) == <<s.htlc, s.tokens, s.lamports, s.events>>

\* The ledger keeps what an instruction did to its accounts when it returned
\* Ok(()), and nothing of it when it returned an error.
Committed(s) ==
  IF s.err = "Ok" THEN <<s.htlc, s.tokens, s.lamports, s.events>> ELSE ledger

Commit(s) ==
  /\ htlc' = Committed(s)[1]
  /\ tokens' = Committed(s)[2]
  /\ lamports' = Committed(s)[3]
  /\ events' = Committed(s)[4]

\* The requests the model sends for an identifier: every amount and every
\* hashlock with a deposit and ordered deadlines, every choice of deadlines,
\* and a request for each missing field.
Requests(id) ==
  { Params(id, "0xd5", "0xd5", a, 1, "h1", OrderedTimelocks) :
      a \in 1 .. MaxAmount }
  \cup
  { Params(id, "0xd5", "0xd5", MaxAmount, 1, hl, OrderedTimelocks) :
      hl \in Hashlocks }
  \cup
  { Params(id, "0xd5", "0xd5", MaxAmount, 1, "h1", tl) : tl \in Timelocks }
  \cup
  { Params(id, "0xd5", "0xd5", 0, 1, "h1", OrderedTimelocks),
    Params(id, "0xd5", "0xd5", MaxAmount, 0, "h1", OrderedTimelocks),
    Params(id, ZeroBytes20, "0xd5", MaxAmount, 1, "h1", OrderedTimelocks),
    Params(id, "0xd5", ZeroBytes20, MaxAmount, 1, "h1", OrderedTimelocks) }

create_htlc(resolver, token_mint, params) ==
  LET s == create_htlc_run(Accounts, resolver, token_mint, params, now)
  IN /\ Commit(s)
     /\ UNCHANGED now

withdraw_to_destination(executor, id, token_mint, preimage) ==
  LET s == withdraw_run(Accounts, executor, id, token_mint, preimage, now)
  IN /\ Commit(s)
     /\ UNCHANGED now

cancel(executor, id, src_address, token_mint) ==
  LET s == cancel_run(Accounts, executor, id, src_address, token_mint, now)
  IN /\ Commit(s)
     /\ UNCHANGED now

\* The clock of the ledger advances.
Tick ==
  /\ now < MaxTime
  /\ now' = now + 1
  /\ UNCHANGED ledger

\* What the token accounts owned by the address of an HTLC hold together.
RECURSIVE Sum(_, _)
Sum(f, S) ==
  IF S = {} THEN 0
  ELSE LET k == CHOOSE x \in S : TRUE IN f[k] + Sum(f, S \ {k})
Held(tok, id) == Sum(tok, { k \in DOMAIN tok : k[2] = HtlcAddress(id) })

\* Outside the program: the token account an HTLC address owns for a mint is
\* created by anyone, or sent tokens by any holder of the mint.
Deposit(token_mint, id, amount) ==
  LET to == AssociatedToken(token_mint, HtlcAddress(id))
      s == init_if_needed(Accounts, to)
  IN /\ Held(s.tokens, id) + amount <= MaxAmount
     /\ to \notin DOMAIN tokens \/ amount > 0
     /\ tokens' = [s.tokens EXCEPT ![to] = @ + amount]
     /\ UNCHANGED <<now, htlc, lamports, events>>

\* Outside the program: anyone sends lamports to the address of an HTLC.
Fund(id, amount) ==
  /\ lamports[HtlcAddress(id)] + amount <= InitialLamports
  /\ lamports' = [lamports EXCEPT ![HtlcAddress(id)] = @ + amount]
  /\ UNCHANGED <<now, htlc, tokens, events>>

\* One escrow: every instruction names the identifier idA.
Next ==
  \/ \E resolver \in Users, token_mint \in MintKeys :
       \E params \in Requests("idA") : create_htlc(resolver, token_mint, params)
  \/ \E executor \in Users, token_mint \in MintKeys, preimage \in Preimages :
       withdraw_to_destination(executor, "idA", token_mint, preimage)
  \/ \E executor \in Users, src_address \in Users, token_mint \in MintKeys :
       cancel(executor, "idA", src_address, token_mint)
  \/ Tick
  \/ \E token_mint \in Mints, amount \in 0 .. MaxAmount :
       Deposit(token_mint, "idA", amount)
  \/ \E amount \in 1 .. InitialLamports : Fund("idA", amount)

Spec == Init /\ [][Next]_vars

\* The request of the largest amount for an identifier.
LargestRequest(id) ==
  Params(id, "0xd5", "0xd5", MaxAmount, 1, "h1", OrderedTimelocks)

\* Two escrows, created, cancelled and blocked by a token account made at the
\* address of a vault: the instructions name either identifier.
NextPair ==
  \/ \E resolver \in Users, token_mint \in MintKeys, id \in HtlcIds :
       create_htlc(resolver, token_mint, LargestRequest(id))
  \/ \E executor \in Users, id \in HtlcIds, token_mint \in MintKeys :
       \E src_address \in Users :
         cancel(executor, id, src_address, token_mint)
  \/ Tick
  \/ \E token_mint \in Mints, id \in HtlcIds : Deposit(token_mint, id, 0)

SpecPair == Init /\ [][NextPair]_vars

\* One escrow with the deadlines 100, 200, 300, 400, and a clock read before
\* the finality deadline, in each window and after the last deadline.
ScenarioTimelocks == <<100, 200, 300, 400>>
ScenarioTimes == {0, 50, 150, 250, 350, 450}
ScenarioRequest(id, amount) ==
  Params(id, "0xd5", "0xd5", amount, 1, "h1", ScenarioTimelocks)

\* The clock of the ledger advances to the next of the scenario's times.
ScenarioTick ==
  /\ \E t \in ScenarioTimes : t > now
  /\ now' = CHOOSE t \in ScenarioTimes :
              t > now /\ \A u \in ScenarioTimes : u > now => t <= u
  /\ UNCHANGED ledger

NextScenario ==
  \/ \E resolver \in Users, token_mint \in MintKeys, amount \in Amounts :
       create_htlc(resolver, token_mint, ScenarioRequest("idA", amount))
  \/ \E executor \in Users, token_mint \in MintKeys, preimage \in Preimages :
       withdraw_to_destination(executor, "idA", token_mint, preimage)
  \/ \E executor \in Users, src_address \in Users, token_mint \in MintKeys :
       cancel(executor, "idA", src_address, token_mint)
  \/ ScenarioTick

SpecScenario == Init /\ [][NextScenario]_vars

\* A caller who is willing to cancel the escrow of id: the Cancel names the
\* stored source identity and the record's source token.
WillingCancel(id) ==
  /\ htlc[id].exists
  /\ \E executor \in Users :
       cancel(executor, id, htlc[id].src_address, htlc[id].src_token)

\* Outside the program: tokens of a mint that is not the record's source
\* token are sent to the token account the address of the record owns.
ForeignDeposit(id) ==
  /\ htlc[id].exists
  /\ \E token_mint \in Mints \ {htlc[id].src_token} :
       \E amount \in 1 .. MaxAmount : Deposit(token_mint, id, amount)

\* One escrow, an advancing clock and a willing caller.
NextLive ==
  \/ \E resolver \in Users, token_mint \in Mints, amount \in 1 .. MaxAmount :
       create_htlc(resolver, token_mint,
                   Params("idA", "0xd5", "0xd5", amount, 1, "h1",
                          OrderedTimelocks))
  \/ \E executor \in Users, token_mint \in Mints, preimage \in Preimages :
       withdraw_to_destination(executor, "idA", token_mint, preimage)
  \/ \E executor \in Users, src_address \in Users, token_mint \in Mints :
       cancel(executor, "idA", src_address, token_mint)
  \/ Tick
  \/ ForeignDeposit("idA")

SpecLive ==
  /\ Init
  /\ [][NextLive]_vars
  /\ WF_vars(Tick)
  /\ WF_vars(WillingCancel("idA"))

\* ------------------------------------------------- requests with faults
\* Every combination of a missing or present amount, deposit, destination
\* address and destination token with ordered or misordered deadlines.
FaultyRequests(id) ==
  { Params(id, dst, dtok, amt, dep, "h1", tl) :
      dst \in EvmAddresses, dtok \in EvmAddresses, amt \in {0, MaxAmount},
      dep \in Deposits, tl \in {OrderedTimelocks, <<3, 1, 6, 5>>} }

\* The requests of Requests and those with several faults.
AllRequests(id) == Requests(id) \cup FaultyRequests(id)

\* Creations only: every caller sends every request, with one fault, with
\* several or with none, for every mint key and at every time, and the
\* token accounts at the address of the HTLC are created and filled from
\* outside.
NextCreate ==
  \/ \E resolver \in Users, token_mint \in MintKeys :
       \E params \in AllRequests("idA") :
         create_htlc(resolver, token_mint, params)
  \/ Tick
  \/ \E token_mint \in Mints, amount \in 0 .. MaxAmount :
       Deposit(token_mint, "idA", amount)

SpecCreate == Init /\ [][NextCreate]_vars

\* ----------------------------------------------------- what is checked
\* What an instruction sent in the current state returns.
CreateResult(resolver, token_mint, params) ==
  create_htlc_run(Accounts, resolver, token_mint, params, now).err
WithdrawResult(executor, id, token_mint, preimage) ==
  withdraw_run(Accounts, executor, id, token_mint, preimage, now).err
CancelResult(executor, id, src_address, token_mint) ==
  cancel_run(Accounts, executor, id, src_address, token_mint, now).err

Records == { id \in HtlcIds : htlc[id].exists }
Open(id) == htlc[id].exists /\ ~htlc[id].withdrawn /\ ~htlc[id].cancelled
\* The events of a name the log holds for the HTLC account of id.
EventsOf(id, name) ==
  { i \in 1 .. Len(events) :
      events[i].name = name /\ events[i].htlc_account = HtlcAddress(id) }
Vault(id) == AssociatedToken(htlc[id].src_token, HtlcAddress(id))

\* C1: in every reachable state, after any instructions by any callers at any
\* times, no HTLC account has both withdrawn and cancelled set.
C1_NeverBothFlags ==
  \A id \in Records : ~(htlc[id].withdrawn /\ htlc[id].cancelled)

\* A withdrawn escrow whose cancellation deadline has passed, with tokens in
\* its vault: only the state check keeps a cancel from completing it again.
C1_Witness ==
  \E id \in Records :
    /\ htlc[id].withdrawn
    /\ now >= htlc[id].cancellation_deadline
    /\ tokens[Vault(id)] >= htlc[id].amount

Completed(id) == htlc[id].exists /\ (htlc[id].withdrawn \/ htlc[id].cancelled)
\* The state-conflict error of a completed escrow.
AlreadyX(id) ==
  IF htlc[id].withdrawn THEN "AlreadyWithdrawn" ELSE "AlreadyCancelled"
Completions(id) ==
  EventsOf(id, "HTLCWithdrawn") \cup EventsOf(id, "HTLCCancelled")

\* C2 as stated: on a completed escrow every Withdraw and every Cancel, for
\* any caller, preimage and source identity, fails with AlreadyWithdrawn after
\* a withdrawal and with AlreadyCancelled after a cancellation.
C2_AlwaysAlreadyX ==
  \A id \in Records :
    Completed(id) =>
      /\ \A executor \in Users, preimage \in Preimages :
           WithdrawResult(executor, id, htlc[id].src_token, preimage)
             = AlreadyX(id)
      /\ \A executor \in Users, src_address \in Users :
           CancelResult(executor, id, src_address, htlc[id].src_token)
             = AlreadyX(id)

\* C2: at most one Withdraw or Cancel ever succeeds on an escrow (its log
\* holds at most one completion, and one exactly when a flag is set); on a
\* completed escrow no Withdraw and no Cancel succeeds, whatever the caller,
\* preimage, source identity and mint; with the escrow's own mint a Withdraw
\* fails with AlreadyWithdrawn or AlreadyCancelled after a withdrawal or a
\* cancellation, and so does a Cancel that names the stored source identity,
\* while a Cancel that names another source identity fails with
\* InvalidDestination.
C2_AtMostOneCompletion ==
  \A id \in Records :
    /\ Cardinality(Completions(id)) = (IF Completed(id) THEN 1 ELSE 0)
    /\ Completed(id) =>
         /\ \A executor \in Users, preimage \in Preimages :
              /\ \A token_mint \in MintKeys :
                   WithdrawResult(executor, id, token_mint, preimage) # "Ok"
              /\ WithdrawResult(executor, id, htlc[id].src_token, preimage)
                   = AlreadyX(id)
         /\ \A executor \in Users, src_address \in Users :
              /\ \A token_mint \in MintKeys :
                   CancelResult(executor, id, src_address, token_mint) # "Ok"
              /\ CancelResult(executor, id, src_address, htlc[id].src_token)
                   = (IF src_address = htlc[id].src_address
                        THEN AlreadyX(id) ELSE "InvalidDestination")

\* A withdrawn escrow inside its withdrawal window whose vault and native
\* balance could pay a second withdrawal.
C2_Witness ==
  \E id \in Records :
    /\ htlc[id].withdrawn
    /\ now < htlc[id].public_deadline
    /\ tokens[Vault(id)] >= htlc[id].amount
    /\ lamports[HtlcAddress(id)] >= htlc[id].safety_deposit

\* The time-window and authorization rule of a withdrawal at time t.
WindowRule(h, caller, t) ==
  \/ h.finality_deadline <= t /\ t < h.resolver_deadline /\ caller = h.resolver
  \/ h.resolver_deadline <= t /\ t < h.public_deadline

\* C3 as stated: a Withdraw on a record succeeds if and only if the hash of
\* the preimage is the hashlock and the window rule holds.
C3_IffHashAndWindow ==
  \A id \in Records : \A executor \in Users, preimage \in Preimages :
    WithdrawResult(executor, id, htlc[id].src_token, preimage) = "Ok"
      <=> /\ hashv(preimage) = htlc[id].hashlock
          /\ WindowRule(htlc[id], executor, now)

\* C3: a Withdraw on a record that is neither withdrawn nor cancelled (from
\* the vault of the record's source token) succeeds if and only if the hash
\* of the preimage is the hashlock and the window rule holds; no Withdraw,
\* whatever mint it names, succeeds on a completed record, with a preimage
\* of another hash or outside the window rule.
C3_WithdrawIffOpenHashWindow ==
  \A id \in Records : \A executor \in Users, preimage \in Preimages :
    LET ok == /\ Open(id)
              /\ hashv(preimage) = htlc[id].hashlock
              /\ WindowRule(htlc[id], executor, now)
    IN /\ WithdrawResult(executor, id, htlc[id].src_token, preimage) = "Ok"
            <=> ok
       /\ \A token_mint \in MintKeys :
            WithdrawResult(executor, id, token_mint, preimage) = "Ok" => ok

\* An open escrow in its public window: a caller who is not the resolver
\* can withdraw with the right preimage and cannot with another.
C3_Witness ==
  \E id \in Records :
    /\ Open(id)
    /\ htlc[id].resolver_deadline <= now /\ now < htlc[id].public_deadline
    /\ \E executor \in Users \ {htlc[id].resolver} :
         \E p, q \in Preimages :
           /\ WithdrawResult(executor, id, htlc[id].src_token, p) = "Ok"
           /\ WithdrawResult(executor, id, htlc[id].src_token, q)
                = "InvalidPreimage"

\* C4 as stated: a Cancel succeeds if and only if the cancellation deadline
\* has been reached and the record is neither withdrawn nor cancelled.
C4_IffDeadlineAndOpen ==
  \A id \in Records : \A executor \in Users, src_address \in Users :
    CancelResult(executor, id, src_address, htlc[id].src_token) = "Ok"
      <=> now >= htlc[id].cancellation_deadline /\ Open(id)

\* C4: a Cancel (from the vault of the record's source token) succeeds if and
\* only if the source identity it names is the stored one, the current time
\* has reached cancellation_deadline and the record is neither withdrawn nor
\* cancelled, and then for any caller; no Cancel, whatever mint it names,
\* succeeds otherwise.
C4_CancelIffSourceDeadlineOpen ==
  \A id \in Records : \A executor \in Users, src_address \in Users :
    LET ok == /\ src_address = htlc[id].src_address
              /\ now >= htlc[id].cancellation_deadline
              /\ Open(id)
    IN /\ CancelResult(executor, id, src_address, htlc[id].src_token) = "Ok"
            <=> ok
       /\ \A token_mint \in MintKeys :
            CancelResult(executor, id, src_address, token_mint) = "Ok" => ok

\* An open escrow at its cancellation deadline exactly: a caller who is not
\* the resolver can cancel it.
C4_Witness ==
  \E id \in Records :
    /\ Open(id)
    /\ now = htlc[id].cancellation_deadline
    /\ \E executor \in Users \ {htlc[id].resolver} :
         CancelResult(executor, id, htlc[id].src_address, htlc[id].src_token)
           = "Ok"

\* An instruction that returned an error has changed nothing.
Rejected(s) == s.err # "Ok" => Committed(s) = ledger

\* Every instruction an attempt may be, run on the accounts of the current
\* state: when it returns an error it changes nothing.
FailuresChangeNothing ==
  /\ \A resolver \in Users, token_mint \in MintKeys, id \in HtlcIds :
       \A params \in Requests(id) :
         Rejected(create_htlc_run(Accounts, resolver, token_mint, params, now))
  /\ \A executor \in Users, id \in HtlcIds, token_mint \in MintKeys :
       /\ \A preimage \in Preimages :
            Rejected(withdraw_run(Accounts, executor, id, token_mint,
                                  preimage, now))
       /\ \A src_address \in Users :
            Rejected(cancel_run(Accounts, executor, id, src_address,
                                token_mint, now))

\* No state shows a part of an instruction: a record is there with all its
\* fields, its creation event and its vault; while it is open its vault and
\* its native balance hold what Create funded; a flag is set exactly when the
\* log holds the event of that completion.
NoPartialState ==
  \A id \in HtlcIds :
    IF ~htlc[id].exists
      THEN /\ htlc[id] = NoAccount
           /\ \A i \in 1 .. Len(events) :
                events[i].htlc_account # HtlcAddress(id)
      ELSE /\ DOMAIN htlc[id] = DOMAIN InitializeHTLC("u1", "mintX",
                                   Params(id, "0xd5", "0xd5", 1, 1, "h1",
                                          OrderedTimelocks), 0)
           /\ Cardinality(EventsOf(id, "HTLCCreated")) = 1
           /\ Vault(id) \in DOMAIN tokens
           /\ Open(id) => /\ tokens[Vault(id)] >= htlc[id].amount
                          /\ lamports[HtlcAddress(id)]
                               >= htlc[id].safety_deposit
           /\ htlc[id].withdrawn <=> EventsOf(id, "HTLCWithdrawn") # {}
           /\ htlc[id].cancelled <=> EventsOf(id, "HTLCCancelled") # {}

\* The events of the log that name the HTLC account of id.
LogOf(ev, id) ==
  SelectSeq(ev, LAMBDA e : e.htlc_account = HtlcAddress(id))

\* What the token accounts of the address of id hold place by place.
VaultsOf(tok, id) ==
  [m \in Mints |->
     IF AssociatedToken(m, HtlcAddress(id)) \in DOMAIN tok
       THEN tok[AssociatedToken(m, HtlcAddress(id))] ELSE 0]

\* No step shows a part of an instruction: a record appears together with
\* both fundings and its event; a flag is set together with the payment of
\* the amount from one token account of the record, the payment of the
\* deposit from its native balance and the event; and no token or lamport
\* leaves the record in a step that sets no flag.
NoPartialStep ==
  \A id \in HtlcIds :
    LET a == HtlcAddress(id) IN
    /\ (~htlc[id].exists /\ htlc'[id].exists) =>
         /\ tokens'[AssociatedToken(htlc'[id].src_token, a)]
              = htlc'[id].amount
         /\ lamports'[a] = lamports[a] + htlc'[id].safety_deposit
         /\ Len(LogOf(events', id)) = Len(LogOf(events, id)) + 1
    /\ (Open(id) /\ (htlc'[id].withdrawn \/ htlc'[id].cancelled)) =>
         /\ \E m \in Mints :
              VaultsOf(tokens', id) =
                [VaultsOf(tokens, id) EXCEPT ![m] = @ - htlc[id].amount]
         /\ lamports'[a] = lamports[a] - htlc[id].safety_deposit
         /\ Len(LogOf(events', id)) = Len(LogOf(events, id)) + 1
         /\ ~(htlc'[id].withdrawn /\ htlc'[id].cancelled)
    /\ (htlc[id].exists /\ (Open(id) <=> (~htlc'[id].withdrawn
                                          /\ ~htlc'[id].cancelled))) =>
         /\ htlc'[id] = htlc[id]
         /\ \A m \in Mints :
              VaultsOf(tokens', id)[m] >= VaultsOf(tokens, id)[m]
         /\ lamports'[a] >= lamports[a]
         /\ LogOf(events', id) = LogOf(events, id)

C10_InclusiveBoundaries ==
  \A id \in Records : \A preimage \in Preimages :
    (Open(id) /\ hashv(preimage) = htlc[id].hashlock) =>
      LET h == htlc[id]
          Result(executor) ==
            WithdrawResult(executor, id, h.src_token, preimage)
      IN /\ now = h.finality_deadline => Result(h.resolver) = "Ok"
         /\ now = h.finality_deadline - 1 =>
              \A executor \in Users :
                Result(executor) = "WithdrawalNotAllowed"
         /\ now = h.public_deadline =>
              \A executor \in Users :
                Result(executor) = "WithdrawalNotAllowed"
         /\ now = h.public_deadline - 1 =>
              \A executor \in Users : Result(executor) = "Ok"

\* An escrow the resolver has withdrawn at its finality deadline exactly.
C10_Witness ==
  \E id \in Records :
    /\ htlc[id].withdrawn
    /\ now = htlc[id].finality_deadline
    /\ \E i \in EventsOf(id, "HTLCWithdrawn") :
         events[i].executor = htlc[id].resolver

\* The balance of a token account, 0 while it is not initialised.
Balance(tok, k) == IF k \in DOMAIN tok THEN tok[k] ELSE 0
\* All token accounts of a mint together.
Supply(tok, m) == Sum(tok, { k \in DOMAIN tok : k[1] = m })
\* The step changes the balances of the token accounts in K and no other.
OnlyTokensOf(K) ==
  \A k \in (DOMAIN tokens \cup DOMAIN tokens') \ K :
    Balance(tokens', k) = Balance(tokens, k)
OnlyLamportsOf(K) ==
  \A a \in DOMAIN lamports \ K : lamports'[a] = lamports[a]
\* The executor the last event of the log names.
LastExecutor(ev) == ev[Len(ev)].executor

\* A step that creates the record of id moves the amount of the source token
\* from the resolver to the vault and the deposit from the resolver to the
\* record, and nothing else.
CreateMovesExactly(id) ==
  (~htlc[id].exists /\ htlc'[id].exists) =>
    LET h == htlc'[id]
        vault == AssociatedToken(h.src_token, HtlcAddress(id))
        from == AssociatedToken(h.src_token, h.resolver)
    IN /\ Balance(tokens', vault) = Balance(tokens, vault) + h.amount
       /\ Balance(tokens', from) = Balance(tokens, from) - h.amount
       /\ OnlyTokensOf({vault, from})
       /\ lamports'[HtlcAddress(id)]
            = lamports[HtlcAddress(id)] + h.safety_deposit
       /\ lamports'[h.resolver] = lamports[h.resolver] - h.safety_deposit
       /\ OnlyLamportsOf({HtlcAddress(id), h.resolver})

\* A step that withdraws the record of id moves the amount from the vault to
\* the executor's token account and the deposit from the record to the
\* executor, and nothing else.
WithdrawMovesExactly(id) ==
  (Open(id) /\ htlc'[id].withdrawn) =>
    LET h == htlc[id]
        executor == LastExecutor(events')
        to == AssociatedToken(h.src_token, executor)
    IN /\ Balance(tokens', Vault(id)) = Balance(tokens, Vault(id)) - h.amount
       /\ Balance(tokens', to) = Balance(tokens, to) + h.amount
       /\ OnlyTokensOf({Vault(id), to})
       /\ lamports'[HtlcAddress(id)]
            = lamports[HtlcAddress(id)] - h.safety_deposit
       /\ lamports'[executor] = lamports[executor] + h.safety_deposit
       /\ OnlyLamportsOf({HtlcAddress(id), executor})

\* C8: Create moves exactly A of the source token from the resolver to the
\* vault and D of native currency from the resolver to the record; a
\* successful Withdraw decreases the vault by exactly A, credited to the
\* executor's token account, and the record's native balance by exactly D,
\* credited to the executor; nothing else changes, and the supply of every
\* mint and the total of native currency are conserved.
C8_RoundTripExact ==
  [][\A id \in HtlcIds :
       /\ CreateMovesExactly(id)
       /\ WithdrawMovesExactly(id)
       /\ ((~htlc[id].exists /\ htlc'[id].exists)
             \/ (Open(id) /\ htlc'[id].withdrawn)) =>
            /\ \A m \in Mints : Supply(tokens', m) = Supply(tokens, m)
            /\ Sum(lamports', DOMAIN lamports) = Sum(lamports, DOMAIN lamports)
    ]_vars

\* C9: a successful Cancel refunds exactly the amount from the vault to the
\* token account of the stored source identity, which is the resolver of the
\* creation and never changes, and pays exactly the safety deposit from the
\* record's native balance to the executor; the executor receives no tokens
\* unless the executor is the source identity.
C9_CancelRefundsSource ==
  [][\A id \in HtlcIds :
       /\ htlc[id].exists =>
            /\ htlc[id].src_address = htlc[id].resolver
            /\ htlc'[id].src_address = htlc[id].src_address
       /\ (Open(id) /\ htlc'[id].cancelled) =>
            LET h == htlc[id]
                executor == LastExecutor(events')
                to == AssociatedToken(h.src_token, h.src_address)
            IN /\ Balance(tokens', Vault(id))
                    = Balance(tokens, Vault(id)) - h.amount
               /\ Balance(tokens', to) = Balance(tokens, to) + h.amount
               /\ OnlyTokensOf({Vault(id), to})
               /\ lamports'[HtlcAddress(id)]
                    = lamports[HtlcAddress(id)] - h.safety_deposit
               /\ lamports'[executor]
                    = lamports[executor] + h.safety_deposit
               /\ OnlyLamportsOf({HtlcAddress(id), executor})
               /\ executor # h.src_address =>
                    \A m \in Mints :
                      Balance(tokens', AssociatedToken(m, executor))
                        = Balance(tokens, AssociatedToken(m, executor))
    ]_vars

\* A request that satisfies every validation rule.
Valid(params) ==
  /\ params.amount > 0
  /\ params.safety_deposit > 0
  /\ params.dst_address # ZeroBytes20
  /\ params.dst_token # ZeroBytes20
  /\ params.finality_deadline < params.resolver_deadline
  /\ params.resolver_deadline < params.public_deadline
  /\ params.public_deadline < params.cancellation_deadline

Fundable(resolver, token_mint, params) ==
  /\ tokens[AssociatedToken(token_mint, resolver)] >= params.amount
  /\ lamports[resolver] >= params.safety_deposit
  /\ AssociatedToken(token_mint, HtlcAddress(params.htlc_id))
       \notin DOMAIN tokens

EnumeratedError(token_mint, params) ==
  CASE params.amount = 0 -> "InvalidAmount"
    [] params.safety_deposit = 0 -> "InvalidSafetyDeposit"
    [] token_mint = DefaultPubkey -> "InvalidTokenMint"
    [] params.dst_address = ZeroBytes20 -> "InvalidDestination"
    [] params.dst_token = ZeroBytes20 -> "InvalidDestination"
    [] ~(/\ params.finality_deadline < params.resolver_deadline
         /\ params.resolver_deadline < params.public_deadline
         /\ params.public_deadline < params.cancellation_deadline)
         -> "InvalidTimelockOrder"
    [] OTHER -> "Ok"

\* The number of rules a request breaks.
Faults(token_mint, params) ==
  Cardinality({ i \in 1 .. 6 :
    \/ i = 1 /\ params.amount = 0
    \/ i = 2 /\ params.safety_deposit = 0
    \/ i = 3 /\ token_mint = DefaultPubkey
    \/ i = 4 /\ params.dst_address = ZeroBytes20
    \/ i = 5 /\ params.dst_token = ZeroBytes20
    \/ i = 6 /\ ~(/\ params.finality_deadline < params.resolver_deadline
                   /\ params.resolver_deadline < params.public_deadline
                   /\ params.public_deadline < params.cancellation_deadline) })

\* Every stored record has a positive amount, a positive deposit and
\* strictly increasing deadlines.
StoredRecordsValid ==
  \A id \in Records :
    /\ htlc[id].amount > 0
    /\ htlc[id].safety_deposit > 0
    /\ htlc[id].finality_deadline < htlc[id].resolver_deadline
    /\ htlc[id].resolver_deadline < htlc[id].public_deadline
    /\ htlc[id].public_deadline < htlc[id].cancellation_deadline

C11_Scenario ==
  \A id \in Records :
    LET h == htlc[id]
        W(executor, preimage) ==
          WithdrawResult(executor, id, h.src_token, preimage)
        src == AssociatedToken(h.src_token, h.src_address)
    IN (Open(id) /\ h.finality_deadline = 100 /\ h.resolver_deadline = 200
          /\ h.public_deadline = 300 /\ h.cancellation_deadline = 400) =>
         \A executor \in Users :
           /\ \A preimage \in Preimages :
                hashv(preimage) = h.hashlock =>
                  /\ now = 150 =>
                       W(executor, preimage)
                         = (IF executor = h.resolver
                              THEN "Ok" ELSE "WithdrawalNotAllowed")
                  /\ now = 250 => W(executor, preimage) = "Ok"
                  /\ now >= 300 =>
                       W(executor, preimage) = "WithdrawalNotAllowed"
           /\ now >= 300 =>
                \A preimage \in Preimages, token_mint \in MintKeys :
                  WithdrawResult(executor, id, token_mint, preimage) # "Ok"
           /\ now = 350 =>
                CancelResult(executor, id, h.src_address, h.src_token)
                  = "CancellationNotAllowed"
           /\ now = 450 =>
                LET s == cancel_run(Accounts, executor, id, h.src_address,
                                    h.src_token, now)
                IN /\ s.err = "Ok"
                   /\ s.htlc[id].cancelled
                   /\ s.tokens[src] = tokens[src] + h.amount

\* The escrow of the scenario, cancelled at t = 450 by a caller who is not
\* its resolver.
C11_Witness ==
  \E id \in Records :
    /\ htlc[id].cancelled
    /\ htlc[id].cancellation_deadline = 400
    /\ now = 450
    /\ \E i \in EventsOf(id, "HTLCCancelled") :
         events[i].executor # htlc[id].resolver

\* C12: a record that is open at a time t >= cancellation_deadline is
\* cancelled by any caller who names the stored source identity; and with an
\* advancing clock and a willing caller every created record is eventually
\* withdrawn or cancelled with its principal out of the vault.
C12_PrincipalRecovered ==
  /\ [](\A id \in Records :
          (Open(id) /\ now >= htlc[id].cancellation_deadline) =>
            \A executor \in Users :
              CancelResult(executor, id, htlc[id].src_address,
                           htlc[id].src_token) = "Ok")
  /\ \A id \in HtlcIds :
       htlc[id].exists ~>
         (Completed(id) /\ tokens[Vault(id)] < htlc[id].amount)

\* C13: when a Withdraw or Cancel completes a record, every Withdraw and
\* every Cancel that would have succeeded in its place, by any caller, now
\* fails with AlreadyWithdrawn after a withdrawal and with AlreadyCancelled
\* after a cancellation; the step pays the amount and the deposit once, the
\* log never holds two completions of a record, and no token and no lamport
\* leaves a completed record.
C13_OneWinner ==
  /\ [](\A id \in Records : Cardinality(Completions(id)) <= 1)
  /\ [][\A id \in Records :
         /\ (Open(id) /\ ~Open(id)') =>
              /\ \A executor \in Users, token_mint \in MintKeys :
                   /\ \A preimage \in Preimages :
                        WithdrawResult(executor, id, token_mint, preimage)
                            = "Ok" =>
                          WithdrawResult(executor, id, token_mint, preimage)'
                            = AlreadyX(id)'
                   /\ \A src_address \in Users :
                        CancelResult(executor, id, src_address, token_mint)
                            = "Ok" =>
                          CancelResult(executor, id, src_address, token_mint)'
                            = AlreadyX(id)'
              /\ Cardinality(Completions(id))' = 1
              /\ Sum(VaultsOf(tokens', id), Mints)
                   = Sum(VaultsOf(tokens, id), Mints) - htlc[id].amount
              /\ lamports'[HtlcAddress(id)]
                   = lamports[HtlcAddress(id)] - htlc[id].safety_deposit
         /\ Completed(id) =>
              /\ \A m \in Mints :
                   VaultsOf(tokens', id)[m] >= VaultsOf(tokens, id)[m]
              /\ lamports'[HtlcAddress(id)] >= lamports[HtlcAddress(id)]
      ]_vars

\* An escrow withdrawn at its resolver deadline by a caller who is not the
\* resolver: the resolver's own Withdraw was as valid and came second.
C13_Witness ==
  \E id \in Records :
    /\ htlc[id].withdrawn
    /\ now = htlc[id].resolver_deadline
    /\ \E i \in EventsOf(id, "HTLCWithdrawn") :
         events[i].executor # htlc[id].resolver

\* What an instruction leaves of the record of id, of its vault and of its
\* native balance is what was there.
Untouched(s, id) ==
  /\ Committed(s)[1][id] = htlc[id]
  /\ Committed(s)[2][Vault(id)] = tokens[Vault(id)]
  /\ Committed(s)[3][HtlcAddress(id)] = lamports[HtlcAddress(id)]

\* C14: a flag that is set stays set: a completed record never changes a
\* field again, so it never returns to Created and never moves between
\* Withdrawn and Cancelled; no Create, Withdraw or Cancel, whatever it
\* names, changes a completed record, its vault balance or its native
\* balance, and no step takes a token or a lamport from them.
C14_FlagsTerminal ==
  /\ [](\A id \in Records :
          Completed(id) =>
            /\ \A resolver \in Users, token_mint \in MintKeys :
                 \A params \in Requests(id) :
                   Untouched(create_htlc_run(Accounts, resolver, token_mint,
                                             params, now), id)
            /\ \A executor \in Users, token_mint \in MintKeys :
                 /\ \A preimage \in Preimages :
                      Untouched(withdraw_run(Accounts, executor, id,
                                             token_mint, preimage, now), id)
                 /\ \A src_address \in Users :
                      Untouched(cancel_run(Accounts, executor, id,
                                           src_address, token_mint, now), id))
  /\ [][\A id \in Records :
         /\ htlc'[id].exists
         /\ htlc[id].withdrawn => htlc'[id].withdrawn
         /\ htlc[id].cancelled => htlc'[id].cancelled
         /\ Completed(id) =>
              /\ htlc'[id] = htlc[id]
              /\ tokens'[Vault(id)] >= tokens[Vault(id)]
              /\ lamports'[HtlcAddress(id)] >= lamports[HtlcAddress(id)]
      ]_vars

\* A cancelled escrow whose vault and native balance could pay once more.
C14_Witness ==
  \E id \in Records :
    /\ htlc[id].cancelled
    /\ tokens[Vault(id)] >= htlc[id].amount
    /\ lamports[HtlcAddress(id)] >= htlc[id].safety_deposit

\* The fields of a record that Create writes and nothing may change.
CreatedFields ==
  {"resolver", "src_address", "dst_address", "src_token", "dst_token",
   "amount", "safety_deposit", "hashlock", "htlc_id", "finality_deadline",
   "resolver_deadline", "public_deadline", "cancellation_deadline",
   "created_at", "bump"}

\* C15: no step changes the resolver, source identity, destination address,
\* token identifiers, amount, safety_deposit, hashlock, htlc_id, deadlines or
\* created_at of a record; a step that emits a withdrawal changes only the
\* withdrawn flag of the record and a step that emits a cancellation only
\* the cancelled flag; and every record of every reachable state has
\* amount > 0, safety_deposit > 0 and strictly increasing deadlines.
C15_FieldsImmutable ==
  /\ []StoredRecordsValid
  /\ [][\A id \in Records :
         /\ \A f \in CreatedFields : htlc'[id][f] = htlc[id][f]
         /\ EventsOf(id, "HTLCWithdrawn")' # EventsOf(id, "HTLCWithdrawn") =>
              htlc'[id] = [htlc[id] EXCEPT !.withdrawn = TRUE]
                /\ ~htlc[id].withdrawn
         /\ EventsOf(id, "HTLCCancelled")' # EventsOf(id, "HTLCCancelled") =>
              htlc'[id] = [htlc[id] EXCEPT !.cancelled = TRUE]
                /\ ~htlc[id].cancelled
         /\ htlc'[id] # htlc[id] =>
              \/ EventsOf(id, "HTLCWithdrawn")'
                   # EventsOf(id, "HTLCWithdrawn")
              \/ EventsOf(id, "HTLCCancelled")'
                   # EventsOf(id, "HTLCCancelled")
      ]_vars

\* A withdrawn escrow, after the clock has moved on from its creation.
C15_Witness ==
  \E id \in Records :
    /\ htlc[id].withdrawn
    /\ htlc[id].created_at < now
    /\ htlc[id].amount = MaxAmount

\* C16: a Withdraw whose accounts are valid reports the first failing check
\* of the order completion flags, preimage, window: AlreadyWithdrawn on a
\* withdrawn and AlreadyCancelled on a cancelled record, whatever the
\* preimage and the time; InvalidPreimage for a preimage of another hash on an
\* open record, in every phase and for every caller; WithdrawalNotAllowed
\* for the right preimage outside the window rule.
C16_WithdrawCheckOrder ==
  \A id \in Records : \A executor \in Users, preimage \in Preimages :
    \A token_mint \in Mints :
      AssociatedToken(token_mint, HtlcAddress(id)) \in DOMAIN tokens =>
        WithdrawResult(executor, id, token_mint, preimage) =
          (IF htlc[id].withdrawn THEN "AlreadyWithdrawn"
           ELSE IF htlc[id].cancelled THEN "AlreadyCancelled"
           ELSE IF hashv(preimage) # htlc[id].hashlock THEN "InvalidPreimage"
           ELSE IF ~WindowRule(htlc[id], executor, now)
             THEN "WithdrawalNotAllowed"
           ELSE WithdrawResult(executor, id, token_mint, preimage))

\* An open escrow past its public deadline: a Withdraw with a preimage of
\* another hash reports the preimage, not the window.
C16_Witness ==
  \E id \in Records :
    /\ Open(id)
    /\ now >= htlc[id].public_deadline
    /\ \E executor \in Users, preimage \in Preimages :
         /\ hashv(preimage) # htlc[id].hashlock
         /\ WithdrawResult(executor, id, htlc[id].src_token, preimage)
              = "InvalidPreimage"

\* The log of a state: each record has one creation event with its address,
\* identifier, resolver, destination address, amount, hashlock and finality
\* deadline, at most one completion event, after the creation event, of the
\* kind of its flag; a withdrawal event carries a preimage of the hashlock
\* and the destination address; an identifier without a record has no event.
LogMatchesRecords ==
  \A id \in HtlcIds :
    IF ~htlc[id].exists THEN LogOf(events, id) = <<>>
    ELSE
      LET h == htlc[id]
          log == LogOf(events, id)
      IN /\ Len(log) = (IF Completed(id) THEN 2 ELSE 1)
         /\ log[1] = [name |-> "HTLCCreated",
                      htlc_account |-> HtlcAddress(id),
                      htlc_id |-> id,
                      resolver |-> h.resolver,
                      dst_address |-> h.dst_address,
                      amount |-> h.amount,
                      hashlock |-> h.hashlock,
                      finality_deadline |-> h.finality_deadline]
         /\ h.withdrawn =>
              /\ log[2].name = "HTLCWithdrawn"
              /\ log[2].htlc_account = HtlcAddress(id)
              /\ hashv(log[2].preimage) = h.hashlock
              /\ log[2].executor \in Users
              /\ log[2].destination = h.dst_address
         /\ h.cancelled =>
              /\ log[2].name = "HTLCCancelled"
              /\ log[2].htlc_account = HtlcAddress(id)
              /\ log[2].executor \in Users

\* An instruction that succeeds appends the one event e, and one that fails
\* appends nothing.
Appends(s, e) ==
  Committed(s)[4] = (IF s.err = "Ok" THEN Append(events, e) ELSE events)

\* Every instruction run on the current state appends its event exactly
\* when it succeeds, and the event names the caller.
EventsExactlyOnSuccess ==
  /\ \A resolver \in Users, token_mint \in MintKeys, id \in HtlcIds :
       \A params \in Requests(id) :
         Appends(create_htlc_run(Accounts, resolver, token_mint, params, now),
                 [name |-> "HTLCCreated",
                  htlc_account |-> HtlcAddress(id),
                  htlc_id |-> id,
                  resolver |-> resolver,
                  dst_address |-> params.dst_address,
                  amount |-> params.amount,
                  hashlock |-> params.hashlock,
                  finality_deadline |-> params.finality_deadline])
  /\ \A id \in Records, executor \in Users, token_mint \in MintKeys :
       /\ \A preimage \in Preimages :
            Appends(withdraw_run(Accounts, executor, id, token_mint,
                                 preimage, now),
                    [name |-> "HTLCWithdrawn",
                     htlc_account |-> HtlcAddress(id),
                     preimage |-> preimage,
                     executor |-> executor,
                     destination |-> htlc[id].dst_address])
       /\ \A src_address \in Users :
            Appends(cancel_run(Accounts, executor, id, src_address,
                               token_mint, now),
                    [name |-> "HTLCCancelled",
                     htlc_account |-> HtlcAddress(id),
                     executor |-> executor])

\* C17: a Create, Withdraw or Cancel appends one event, with the stated
\* data and the caller as its resolver or executor, exactly when it
\* succeeds; the log only grows, by one event in a step that changes a
\* record and not otherwise; per record it holds exactly one creation event
\* and at most one completion event, which comes after the creation event,
\* and a withdrawal event's preimage hashes to the record's hashlock.
C17_EventsOnSuccess ==
  /\ []LogMatchesRecords
  /\ []EventsExactlyOnSuccess
  /\ [][/\ Len(events') = Len(events) + (IF htlc' # htlc THEN 1 ELSE 0)
        /\ SubSeq(events', 1, Len(events)) = events
      ]_vars

\* The log of an escrow that a caller who is not its resolver has
\* withdrawn: its creation event, then the withdrawal event.
C17_Witness ==
  \E id \in Records :
    /\ Len(events) = 2
    /\ events[1].name = "HTLCCreated"
    /\ events[2].name = "HTLCWithdrawn"
    /\ events[2].executor # htlc[id].resolver

\* C18: a Cancel whose accounts are valid reports the first failing check of
\* the order source identity, completion flags, time: InvalidDestination for
\* a source identity that is not the stored one, whatever the flags and the
\* time; with the stored source identity AlreadyWithdrawn or
\* AlreadyCancelled on a completed record, whatever the time; and
\* CancellationNotAllowed only on an open record with the stored source
\* identity before cancellation_deadline.
C18_CancelCheckOrder ==
  \A id \in Records : \A executor \in Users, src_address \in Users :
    \A token_mint \in Mints :
      AssociatedToken(token_mint, HtlcAddress(id)) \in DOMAIN tokens =>
        LET r == CancelResult(executor, id, src_address, token_mint)
        IN /\ r = (IF src_address # htlc[id].src_address
                     THEN "InvalidDestination"
                   ELSE IF htlc[id].withdrawn THEN "AlreadyWithdrawn"
                   ELSE IF htlc[id].cancelled THEN "AlreadyCancelled"
                   ELSE IF now < htlc[id].cancellation_deadline
                     THEN "CancellationNotAllowed"
                   ELSE r)
           /\ r = "CancellationNotAllowed" =>
                /\ Open(id)
                /\ src_address = htlc[id].src_address
                /\ now < htlc[id].cancellation_deadline

\* A withdrawn escrow before its cancellation deadline: a Cancel reports
\* the source identity when it names another, and the flag when it names
\* the stored one.
C18_Witness ==
  \E id \in Records :
    /\ htlc[id].withdrawn
    /\ now < htlc[id].cancellation_deadline
    /\ \E executor \in Users, other \in Users :
         /\ CancelResult(executor, id, other, htlc[id].src_token)
              = "InvalidDestination"
         /\ CancelResult(executor, id, htlc[id].src_address,
                         htlc[id].src_token) = "AlreadyWithdrawn"

\* C19: a step that sets the withdrawn or the cancelled flag of a record
\* takes exactly the amount out of the vault Create funded, the token
\* account of the record's source token that the record's address owns.
C19_CompletionDebitsVault ==
  [][\A id \in Records :
       (Open(id) /\ ~Open(id)') =>
         tokens'[Vault(id)] = tokens[Vault(id)] - htlc[id].amount
    ]_vars

\* C20: in no state do a Withdraw and a Cancel on one record both succeed,
\* whatever callers, preimages, source identities and mints they name; a
\* Withdraw succeeds only before public_deadline and a Cancel only from
\* cancellation_deadline, which is later; from public_deadline up to
\* cancellation_deadline neither succeeds.
C20_WindowsDisjoint ==
  \A id \in Records :
    LET h == htlc[id]
        CanWithdraw ==
          \E executor \in Users, token_mint \in MintKeys :
            \E preimage \in Preimages :
              WithdrawResult(executor, id, token_mint, preimage) = "Ok"
        CanCancel ==
          \E executor \in Users, token_mint \in MintKeys :
            \E src_address \in Users :
              CancelResult(executor, id, src_address, token_mint) = "Ok"
    IN /\ ~(CanWithdraw /\ CanCancel)
       /\ h.public_deadline < h.cancellation_deadline
       /\ CanWithdraw => now < h.public_deadline
       /\ CanCancel => now >= h.cancellation_deadline
       /\ (h.public_deadline <= now /\ now < h.cancellation_deadline) =>
            ~CanWithdraw /\ ~CanCancel

\* An open escrow at its public deadline, before its cancellation deadline.
C20_Witness ==
  \E id \in Records :
    /\ Open(id)
    /\ now = htlc[id].public_deadline
    /\ now < htlc[id].cancellation_deadline
    /\ tokens[Vault(id)] >= htlc[id].amount

\* The errors of a payment that finds too little on the account it draws on,
\* or no account.
FundsErrors ==
  {"InsufficientFunds", "ProgramFailedToComplete",
   "ResultWithNegativeLamports", "AccountNotInitialized"}

\* While a record is open its vault holds its amount and its native balance
\* its safety deposit.
Solvent ==
  \A id \in Records :
    Open(id) => /\ Vault(id) \in DOMAIN tokens
                /\ tokens[Vault(id)] >= htlc[id].amount
                /\ lamports[HtlcAddress(id)] >= htlc[id].safety_deposit

\* No Withdraw or Cancel from the vault of a record ends in an error of
\* FundsErrors, and one whose preconditions hold returns Ok.
NeverShortOfFunds ==
  \A id \in Records : \A executor \in Users :
    LET h == htlc[id] IN
    /\ \A preimage \in Preimages :
         LET r == WithdrawResult(executor, id, h.src_token, preimage)
         IN /\ r \notin FundsErrors
            /\ (Open(id) /\ hashv(preimage) = h.hashlock
                  /\ WindowRule(h, executor, now)) => r = "Ok"
    /\ \A src_address \in Users :
         LET r == CancelResult(executor, id, src_address, h.src_token)
         IN /\ r \notin FundsErrors
            /\ (Open(id) /\ src_address = h.src_address
                  /\ now >= h.cancellation_deadline) => r = "Ok"

\* Create adds the amount to the vault and the safety deposit to what the
\* address of the record held, and while the record stays open neither
\* balance goes down.
SolventStep ==
  \A id \in HtlcIds :
    LET a == HtlcAddress(id) IN
    /\ (~htlc[id].exists /\ htlc'[id].exists) =>
         LET v == AssociatedToken(htlc'[id].src_token, a)
         IN /\ v \notin DOMAIN tokens
            /\ tokens'[v] = htlc'[id].amount
            /\ lamports'[a] = lamports[a] + htlc'[id].safety_deposit
    /\ (Open(id) /\ ~htlc'[id].withdrawn /\ ~htlc'[id].cancelled) =>
         /\ tokens'[Vault(id)] >= tokens[Vault(id)]
         /\ lamports'[a] >= lamports[a]

\* A step that takes tokens from a token account of the address of a record,
\* or lamports from that address, is a successful Withdraw or Cancel of that
\* record: it sets one flag of the open record, appends its completion
\* event, and takes the amount and the safety deposit and no more.
DebitedOnlyByCompletion ==
  \A id \in HtlcIds :
    LET a == HtlcAddress(id)
        debited ==
          \/ \E m \in Mints : VaultsOf(tokens', id)[m] < VaultsOf(tokens, id)[m]
          \/ lamports'[a] < lamports[a]
    IN debited =>
         /\ Open(id)
         /\ htlc'[id].withdrawn # htlc'[id].cancelled
         /\ Len(events') = Len(events) + 1
         /\ events'[Len(events')].htlc_account = a
         /\ events'[Len(events')].name
              = (IF htlc'[id].withdrawn THEN "HTLCWithdrawn"
                 ELSE "HTLCCancelled")
         /\ \A m \in Mints :
              VaultsOf(tokens', id)[m]
                >= VaultsOf(tokens, id)[m] - htlc[id].amount
         /\ lamports'[a] = lamports[a] - htlc[id].safety_deposit

\* C21: in every reachable state in which a record is open its vault holds
\* at least its amount of the source token and its native balance at least
\* its safety deposit above what the address held before Create added it;
\* so a Withdraw or Cancel from the vault whose preconditions hold returns
\* Ok and none fails for lack of funds; and the vault and the native balance
\* of a record are debited only by a successful Withdraw or Cancel of that
\* record.
C21_Solvency ==
  /\ []Solvent
  /\ []NeverShortOfFunds
  /\ [][SolventStep /\ DebitedOnlyByCompletion]_vars

\* An open escrow that holds its amount and its safety deposit and no more,
\* in its public window: the Withdraw of a caller who is not the resolver
\* goes through on the funds of Create alone.
C21_Witness ==
  \E id \in Records :
    /\ Open(id)
    /\ tokens[Vault(id)] = htlc[id].amount
    /\ lamports[HtlcAddress(id)] = htlc[id].safety_deposit
    /\ htlc[id].resolver_deadline <= now
    /\ \E executor \in Users \ {htlc[id].resolver}, preimage \in Preimages :
         WithdrawResult(executor, id, htlc[id].src_token, preimage) = "Ok"

\* The first rule a request breaks in the order InvalidAmount,
\* InvalidSafetyDeposit, InvalidTokenMint, InvalidDestination (address, then
\* token), InvalidTimelockOrder.
FirstFailingRule(token_mint, params) ==
  IF params.amount = 0 THEN "InvalidAmount"
  ELSE IF params.safety_deposit = 0 THEN "InvalidSafetyDeposit"
  ELSE IF token_mint = DefaultPubkey THEN "InvalidTokenMint"
  ELSE IF params.dst_address = ZeroBytes20 THEN "InvalidDestination"
  ELSE IF params.dst_token = ZeroBytes20 THEN "InvalidDestination"
  ELSE IF ~(/\ params.finality_deadline < params.resolver_deadline
            /\ params.resolver_deadline < params.public_deadline
            /\ params.public_deadline < params.cancellation_deadline)
    THEN "InvalidTimelockOrder"
  ELSE "Ok"

Times == 0 .. MaxTime

\* C23 as stated: the outcome of a Create depends only on its parameters and
\* on whether a record exists for its identifier: from a state to the next,
\* the same request by the same caller has the same outcome unless the
\* record of its identifier has appeared.
C23_OnlyParamsAndExistence ==
  [][\A id \in HtlcIds, resolver \in Users, token_mint \in MintKeys :
       \A params \in Requests(id) :
         htlc'[id].exists = htlc[id].exists =>
           CreateResult(resolver, token_mint, params)'
             = CreateResult(resolver, token_mint, params)]_vars

\* What of the ledger the outcome of a Create depends on: whether its record
\* exists, whether a token account sits at the address of its vault, and
\* what the resolver holds of the mint and of lamports.
CreateDependsOn(id, resolver, token_mint) ==
  <<htlc[id].exists,
    AssociatedToken(token_mint, HtlcAddress(id)) \in DOMAIN tokens,
    Balance(tokens, AssociatedToken(token_mint, resolver)),
    lamports[resolver]>>

\* Run at any clock value, a Create returns what it returns now, and leaves
\* the ledger it leaves now but for created_at, which is the clock value.
TimeIndependent ==
  \A id \in HtlcIds, resolver \in Users, token_mint \in MintKeys :
    \A params \in Requests(id) : \A t \in Times :
      LET s == create_htlc_run(Accounts, resolver, token_mint, params, now)
          st == create_htlc_run(Accounts, resolver, token_mint, params, t)
      IN /\ st.err = s.err
         /\ s.err = "Ok" =>
              /\ s.htlc[id].created_at = now
              /\ st = [s EXCEPT !.htlc[id].created_at = t]
         /\ s.err # "Ok" => Committed(st) = Committed(s)

\* The outcome of a Create as a function of its mint, its request and what
\* CreateDependsOn names d.
CreateOutcome(d, token_mint, params) ==
  IF d[1] THEN "AccountAlreadyInUse"
  ELSE IF token_mint = DefaultPubkey THEN "AccountOwnedByWrongProgram"
  ELSE IF d[2] THEN "IllegalOwner"
  ELSE IF ~Valid(params) THEN FirstFailingRule(token_mint, params)
  ELSE IF d[3] < params.amount THEN "InsufficientFunds"
  ELSE IF d[4] < params.safety_deposit THEN "ResultWithNegativeLamports"
  ELSE "Ok"

\* The outcome of every Create is the one CreateOutcome names.
OutcomeFunction ==
  \A id \in HtlcIds, resolver \in Users, token_mint \in MintKeys :
    \A params \in AllRequests(id) :
      CreateResult(resolver, token_mint, params)
        = CreateOutcome(CreateDependsOn(id, resolver, token_mint),
                        token_mint, params)

\* A valid request that can be funded is accepted whatever the clock, its
\* deadlines in the past included; a record is not older than the clock; on
\* a record created at or after its public deadline no Withdraw succeeds,
\* whatever its caller, mint and preimage; one created at or after its
\* cancellation deadline can be cancelled by any caller as soon as it is
\* there.
PastDeadlines ==
  /\ \A id \in HtlcIds \ Records, resolver \in Users, token_mint \in Mints :
       \A params \in AllRequests(id) :
         (Valid(params) /\ Fundable(resolver, token_mint, params)) =>
           CreateResult(resolver, token_mint, params) = "Ok"
  /\ \A id \in Records :
       LET h == htlc[id] IN
       /\ h.created_at <= now
       /\ h.created_at >= h.public_deadline =>
            \A executor \in Users, token_mint \in MintKeys :
              \A preimage \in Preimages :
                WithdrawResult(executor, id, token_mint, preimage) # "Ok"
       /\ (h.created_at >= h.cancellation_deadline /\ Open(id)) =>
            \A executor \in Users :
              CancelResult(executor, id, h.src_address, h.src_token) = "Ok"

\* C23: the outcome of a Create does not depend on the ledger time, which
\* only determines created_at; it depends on the request, on whether a
\* record exists for the identifier, on whether a token account sits at the
\* address of the vault and on what the resolver holds.  Create accepts
\* deadlines that lie in the past: a record can be created at or after its
\* public deadline, and then no Withdraw ever succeeds on it, or at or after
\* its cancellation deadline, and then it is cancellable at once.
C23_ClockOnlySetsCreatedAt ==
  /\ TimeIndependent
  /\ OutcomeFunction
  /\ PastDeadlines

\* An open escrow created at its cancellation deadline: the Withdraw of the
\* resolver with the right preimage is refused for its time, and a Cancel
\* goes through.
C23_Witness ==
  \E id \in Records :
    /\ Open(id)
    /\ htlc[id].created_at >= htlc[id].cancellation_deadline
    /\ \E preimage \in Preimages :
         /\ hashv(preimage) = htlc[id].hashlock
         /\ WithdrawResult(htlc[id].resolver, id, htlc[id].src_token, preimage)
              = "WithdrawalNotAllowed"
    /\ CancelResult(htlc[id].resolver, id, htlc[id].src_address,
                    htlc[id].src_token) = "Ok"

====
